---- MODULE Spec2Model ----
(***************************************************************************)
(* Session-gated data-access layer of dex-real-time-streaming: the API     *)
(* route handlers (pages/api), the serverAuth session validator and the    *)
(* document store they read and write through prismadb.                    *)
(*                                                                         *)
(* A handler is an async function: it runs without interruption up to each *)
(* awaited database call, and other requests interleave at those awaits.   *)
(* Every action below is one such segment: the database call it resumes    *)
(* from, executed atomically against the store, followed by the handler's  *)
(* code up to the next database call or to the response.                   *)
(* getServerSession (JWT strategy) and bcrypt.hash read no shared state,   *)
(* so their awaits are folded into the segment that contains them.         *)
(***************************************************************************)
EXTENDS Integers, Sequences, FiniteSets, TLC

VARIABLES users, movies, reqs, pages, cache, calls, modal, cookie

\* The browser's side: the pages it has asked for, the SWR cache, what it
\* keeps about each API call it has issued, the info modal's store and the
\* session cookie. The handlers never touch it.
clientVars == <<pages, cache, calls, modal, cookie>>

vars == <<users, movies, reqs, pages, cache, calls, modal, cookie>>

----------------------------------------------------------------------------
(* Bounds *)

MaxRequests == 2        \* requests issued in one behaviour of Spec
MaxInFlight == 2        \* handler invocations running at the same time
SeqMaxRequests == 4     \* requests issued in one behaviour of SeqSpec
AccountMaxRequests == 3 \* requests issued in one behaviour of AccountSpec
MaxVisits == 3          \* pages asked for in one behaviour of PageSpec
FavMaxRequests == 3     \* requests issued in one behaviour of FavSpec
MaxCalls == 2           \* API calls the browser issues in HookSpec
MaxTraffic == 8         \* API calls of the browser in ClientSpec, a toggle
                        \* counted with the two revalidations it triggers

----------------------------------------------------------------------------
(* Values *)

Undefined == "undefined"            \* a JS undefined / missing field
SaltRounds == 12                    \* bcrypt cost factor

EmailA == "a@x"
EmailB == "b@x"
Emails == {EmailA, EmailB}

CatalogIds == <<"m1", "m2">>        \* the seeded catalog, in store order
UnknownId == "m9"                   \* a well-formed id of no movie

Movie(id) == [id |-> id, title |-> "title-" \o id]

Null == [kind |-> "null"]           \* what findUnique returns for no match

Range(s) == {s[k] : k \in DOMAIN s}

\* The password passed on unhashed.
BcryptHash_plain(password) == password

\* bcrypt.hash(password, SaltRounds): a string in modular-crypt format that
\* carries the cost factor and is never equal to its input.
BcryptHash(password) == "$2b$" \o ToString(SaltRounds) \o "$" \o password

\* The session object getServerSession decodes from the request's cookie.
NoSession == [kind |-> "null"]
SessionOf(email) == [user |-> [email |-> email]]
SessionEmail(session) ==
    IF session = NoSession THEN Undefined ELSE session.user.email

----------------------------------------------------------------------------
(* The document store behind prismadb: two collections, each a sequence of *)
(* documents in insertion order.                                           *)

UserDoc(email, name, hashedPassword) ==
    [email |-> email, name |-> name, hashedPassword |-> hashedPassword,
     image |-> "", emailVerified |-> "now", favoriteIds |-> <<>>]

HasUser(us, email) == \E k \in DOMAIN us : us[k].email = email

\* A lookup that drops its where clause and returns the first document.
UserFindUnique_first(us, email) ==
    IF HasUser(us, email) THEN us[1] ELSE Null

\* prismadb.user.findUnique({ where: { email } })
UserFindUnique(us, email) ==
    IF HasUser(us, email)
    THEN us[CHOOSE k \in DOMAIN us :
                /\ us[k].email = email
                /\ \A j \in DOMAIN us : us[j].email = email => k <= j]
    ELSE Null

\* prismadb.movie.findUnique({ where: { id } })
MovieFindUnique(ms, id) ==
    IF \E k \in DOMAIN ms : ms[k].id = id
    THEN ms[CHOOSE k \in DOMAIN ms : ms[k].id = id]
    ELSE Null

\* One lookup per favorite id instead of one membership query.
MovieFindManyIn_perId(ms, ids) ==
    [k \in DOMAIN ids |-> MovieFindUnique(ms, ids[k])]

\* prismadb.movie.findMany({ where: { id: { in: ids } } })
MovieFindManyIn(ms, ids) == SelectSeq(ms, LAMBDA m : m.id \in Range(ids))

\* prismadb.movie.findMany({ take: 1, skip })
MovieFindManySkipTake(ms, skip) ==
    IF skip + 1 <= Len(ms) THEN <<ms[skip + 1]>> ELSE <<>>

\* The required fields of User: create is refused when data lacks the name.
UserCreateValid(data) == data.name # Undefined

\* A store with no unique index on User.email.
UserCreateAllowed_noIndex(us, email) == TRUE

\* The unique index on User.email: create is refused when the email is held.
UserCreateAllowed(us, email) == ~HasUser(us, email)

\* An update without its where clause: every user gets the favoriteIds.
UserSetFavorites_all(us, email, favoriteIds) ==
    [k \in DOMAIN us |-> [us[k] EXCEPT !.favoriteIds = favoriteIds]]

\* prismadb.user.update({ where: { email }, data: { favoriteIds } })
UserSetFavorites(us, email, favoriteIds) ==
    [k \in DOMAIN us |->
        IF us[k].email = email
        THEN [us[k] EXCEPT !.favoriteIds = favoriteIds]
        ELSE us[k]]

\* A removal that drops only the first element equal to value.
without_first(array, value) ==
    IF \E k \in DOMAIN array : array[k] = value
    THEN LET first == CHOOSE k \in DOMAIN array :
                        /\ array[k] = value
                        /\ \A j \in 1 .. (k - 1) : array[j] # value
         IN  SubSeq(array, 1, first - 1)
                 \o SubSeq(array, first + 1, Len(array))
    ELSE array

\* A removal that also collapses repeated ids: uniq(without(array, value)).
without_uniq(array, value) ==
    LET kept == SelectSeq(array, LAMBDA v : v # value)
        uniq[k \in 0 .. Len(kept)] ==
            IF k = 0 THEN <<>>
            ELSE IF kept[k] \in Range(uniq[k - 1])
                 THEN uniq[k - 1]
                 ELSE Append(uniq[k - 1], kept[k])
    IN  uniq[Len(kept)]

\* lodash without(array, value): every element equal to value dropped.
without(array, value) == SelectSeq(array, LAMBDA v : v # value)

\* An append that skips a value the array already holds.
PushFavorite_addToSet(favoriteIds, movieId) ==
    IF \E k \in DOMAIN favoriteIds : favoriteIds[k] = movieId
    THEN favoriteIds
    ELSE Append(favoriteIds, movieId)

\* favoriteIds: { push: movieId }, applied to the stored array.
PushFavorite(favoriteIds, movieId) == Append(favoriteIds, movieId)

----------------------------------------------------------------------------
(* Requests and responses *)

Endpoints == {"current", "movies", "movie", "random", "favorites",
              "favorite", "register"}
Methods == {"GET", "POST", "DELETE", "PUT"}

\* The current-user handler without its method guard.
AllowedMethods_noGuard(endpoint) ==
    CASE endpoint = "favorite" -> {"POST", "DELETE"}
      [] endpoint = "register" -> {"POST"}
      [] endpoint = "current" -> Methods
      [] OTHER -> {"GET"}

\* The methods each handler lets past its method guard.
AllowedMethods(endpoint) ==
    CASE endpoint = "favorite" -> {"POST", "DELETE"}
      [] endpoint = "register" -> {"POST"}
      [] OTHER -> {"GET"}

EmptyBody == [kind |-> "empty"]                 \* res.status(n).end()
JsonUndefined == [kind |-> "undefined"]         \* res.json(undefined)
JsonUser(user) == [kind |-> "user", user |-> user]
JsonMovie(movie) == [kind |-> "movie", movie |-> movie]
JsonMovies(list) == [kind |-> "movies", movies |-> list]
JsonError(message) == [kind |-> "error", error |-> message]

SuccessKinds == {"user", "movie", "movies", "undefined"}

NoError == [site |-> "none", message |-> ""]
Thrown(site, message) == [site |-> site, message |-> message]

\* An incoming request: what the client controls.
Input(endpoint, method, session, movieId, email, name, password) ==
    [endpoint |-> endpoint, method |-> method, session |-> session,
     movieId |-> movieId, email |-> email, name |-> name,
     password |-> password]

\* A handler invocation: the request, the handler's position and locals, the
\* number of prismadb calls it has made, and its response once sent.
Invocation(inp) ==
    [endpoint |-> inp.endpoint, method |-> inp.method,
     session |-> inp.session, movieId |-> inp.movieId,
     email |-> inp.email, name |-> inp.name, password |-> inp.password,
     pc |-> "entry", currentUser |-> Null, local |-> <<>>, dbCalls |-> 0,
     status |-> 0, body |-> EmptyBody, thrown |-> NoError]

Respond(r, status, body) ==
    [r EXCEPT !.pc = "done", !.status = status, !.body = body]

\* A single-movie handler whose failures escape to the framework (HTTP 500).
CatchResponse_uncaught(endpoint, error) ==
    IF endpoint = "register"
    THEN [status |-> 400,
          body |-> JsonError("Something went wrong " \o error.message)]
    ELSE IF endpoint = "movie"
         THEN [status |-> 500, body |-> EmptyBody]
         ELSE [status |-> 400, body |-> EmptyBody]

\* A catch block that tells a missing account (401) from a missing session.
CatchResponse_distinguish(endpoint, error) ==
    IF endpoint = "register"
    THEN [status |-> 400,
          body |-> JsonError("Something went wrong " \o error.message)]
    ELSE IF error.site = "user"
         THEN [status |-> 401, body |-> EmptyBody]
         ELSE [status |-> 400, body |-> EmptyBody]

\* The catch block at each handler's boundary.
CatchResponse(endpoint, error) ==
    IF endpoint = "register"
    THEN [status |-> 400,
          body |-> JsonError("Something went wrong " \o error.message)]
    ELSE [status |-> 400, body |-> EmptyBody]

Throw(r, site, message) ==
    LET error == Thrown(site, message)
        res == CatchResponse(r.endpoint, error)
    IN  [Respond(r, res.status, res.body) EXCEPT !.thrown = error]

\* One more prismadb call issued; the handler now awaits it at position pc.
Await(r, pc) == [r EXCEPT !.pc = pc, !.dbCalls = @ + 1]

InFlight == {k \in DOMAIN reqs : reqs[k].pc # "done"}

----------------------------------------------------------------------------
(* serverAuth *)

\* serverAuth up to its database call: the session is resolved and checked
\* for the email claim.
serverAuthEntry(r) ==
    IF SessionEmail(r.session) \in {Undefined, ""}
    THEN Throw(r, "session", "Not signed in")
    ELSE Await(r, "auth")

\* serverAuth falling back on the session's own claims when the store has no
\* record for its email.
serverAuth_trustSession(us, session) ==
    IF HasUser(us, session.user.email)
    THEN UserFindUnique(us, session.user.email)
    ELSE UserDoc(session.user.email, "", "")

\* serverAuth from its database call on: the user the session's email maps
\* to in the store right now, or the failure.
serverAuth(us, session) == UserFindUnique(us, session.user.email)

----------------------------------------------------------------------------
(* Handlers, segment by segment *)

\* Handler entry: the method guard, then the first call of the handler.
HandlerEntry(inp) ==
    LET r == Invocation(inp)
    IN  IF inp.method \notin AllowedMethods(inp.endpoint)
        THEN Respond(r, 405, EmptyBody)
        ELSE IF inp.endpoint = "register"
             THEN Await(r, "regFind")
             ELSE serverAuthEntry(r)

\* The handler's code after serverAuth has returned currentUser.
AfterAuth(r) ==
    CASE r.endpoint = "current" ->
            Respond(r, 200, JsonUser(r.currentUser))
      [] r.endpoint = "movies" -> Await(r, "findMany")
      [] r.endpoint = "movie" ->
            IF r.movieId = Undefined
            THEN Throw(r, "validate", "Invalid ID")
            ELSE IF r.movieId = ""
                 THEN Throw(r, "validate", "Invalid ID")
                 ELSE Await(r, "findMovie")
      [] r.endpoint = "random" -> Await(r, "count")
      [] r.endpoint = "favorites" -> Await(r, "findFavorites")
      [] r.endpoint = "favorite" -> Await(r, "existingMovie")

serverAuthResume(r, us) ==
    LET currentUser == serverAuth(us, r.session)
    IN  IF currentUser = Null
        THEN Throw(r, "user", "Not signed in")
        ELSE AfterAuth([r EXCEPT !.currentUser = currentUser])

\* A catalog query that leaves out what the asking user already favorited.
MoviesResume_perUser(r, ms) ==
    Respond(r, 200,
            JsonMovies(SelectSeq(ms, LAMBDA m :
                           m.id \notin Range(r.currentUser.favoriteIds))))

\* GET /api/movies after movie.findMany(): every record, as stored.
MoviesResume(r, ms) == Respond(r, 200, JsonMovies(ms))

\* An index rounded up instead of down: Math.ceil(Math.random() * movieCount).
RandomIndexes_ceil(movieCount) == 0 .. movieCount

\* Math.floor(Math.random() * movieCount), Math.random() in [0, 1).
RandomIndexes(movieCount) ==
    IF movieCount = 0 THEN {0} ELSE 0 .. (movieCount - 1)

\* res.status(200).json(randomMovies[0])
RandomResponse(randomMovies) ==
    IF Len(randomMovies) = 0 THEN JsonUndefined
    ELSE JsonMovie(randomMovies[1])

\* A single-movie handler that answers a missing movie with 404.
MovieResume_notFound(r, ms) ==
    LET movie == MovieFindUnique(ms, r.movieId)
    IN  IF movie = Null
        THEN Respond(r, 404, EmptyBody)
        ELSE Respond(r, 200, JsonMovie(movie))

\* GET /api/movies/[movieId] after movie.findUnique.
MovieResume(r, ms) ==
    LET movie == MovieFindUnique(ms, r.movieId)
    IN  IF movie = Null
        THEN Throw(r, "validate", "Invalid ID")
        ELSE Respond(r, 200, JsonMovie(movie))

\* A favorite handler that writes without looking the movie up.
FavoriteExistingResume_noCheck(r, ms) ==
    IF r.method = "POST"
    THEN Await(r, "push")
    ELSE Await([r EXCEPT !.local =
                   without(r.currentUser.favoriteIds, r.movieId)],
               "set")

\* POST/DELETE /api/favorite after movie.findUnique({ id: movieId }).
FavoriteExistingResume(r, ms) ==
    IF r.movieId = Undefined
    THEN Throw(r, "prisma", "Argument id is missing")
    ELSE IF MovieFindUnique(ms, r.movieId) = Null
         THEN Throw(r, "validate", "Invalid ID")
         ELSE IF r.method = "POST"
              THEN Await(r, "push")
              ELSE Await([r EXCEPT !.local =
                             without(r.currentUser.favoriteIds, r.movieId)],
                         "set")

\* A remove that pulls movieId from the stored array at the time of its
\* write.
FavoriteWrite_atomicPull(r, stored) ==
    IF r.method = "POST"
    THEN PushFavorite(stored, r.movieId)
    ELSE without(stored, r.movieId)

\* An add written like the remove: the array read by serverAuth plus movieId.
FavoriteWrite_readModifyWrite(r, stored) ==
    IF r.method = "POST"
    THEN Append(r.currentUser.favoriteIds, r.movieId)
    ELSE r.local

\* The favoriteIds the pending user.update of r writes, given the stored
\* array: the atomic push for POST, the precomputed array for DELETE.
FavoriteWrite(r, stored) ==
    IF r.method = "POST" THEN PushFavorite(stored, r.movieId) ELSE r.local

\* The record handed to user.create by the registration handler.
RegisterData(email, name, hashedPassword) ==
    UserDoc(email, name, hashedPassword)

\* A registration that hashes whatever it is given: String(password).
RegisterFindResume_hashAnything(r, us) ==
    IF r.email = Undefined
    THEN Throw(r, "prisma", "Argument email is missing")
    ELSE IF UserFindUnique(us, r.email) # Null
         THEN Respond(r, 422, JsonError("Email taken"))
         ELSE Await([r EXCEPT !.local = <<BcryptHash(r.password)>>],
                    "create")

\* POST /api/register after user.findUnique({ email }).
RegisterFindResume(r, us) ==
    IF r.email = Undefined
    THEN Throw(r, "prisma", "Argument email is missing")
    ELSE IF UserFindUnique(us, r.email) # Null
         THEN Respond(r, 422, JsonError("Email taken"))
         ELSE IF r.password = Undefined
              THEN Throw(r, "bcrypt", "data and salt arguments required")
              ELSE Await([r EXCEPT !.local = <<BcryptHash(r.password)>>],
                         "create")

----------------------------------------------------------------------------
(* Credentials sign-in *)

\* JavaScript's !value for an optional string.
Falsy(value) == value \in {Undefined, ""}

\* bcrypt's compare(data, encrypted)
compare(password, hashedPassword) == hashedPassword = BcryptHash(password)

\* What NextAuth makes of an error thrown by authorize: a refused sign-in.
AuthorizeThrow(r, message) ==
    [Respond(r, 401, JsonError(message))
        EXCEPT !.thrown = Thrown("authorize", message)]

\* authorize up to its database call.
authorizeEntry(r) ==
    IF Falsy(r.email) \/ Falsy(r.password)
    THEN AuthorizeThrow(r, "Email and password required")
    ELSE Await(r, "authorizeFind")

\* An authorize that does not look at the result of compare.
authorizeResume_noCompare(r, us) ==
    LET user == UserFindUnique(us, r.email)
    IN  IF user = Null THEN AuthorizeThrow(r, "Email does not exist")
        ELSE IF Falsy(user.hashedPassword)
        THEN AuthorizeThrow(r, "Email does not exist")
        ELSE Respond(r, 200, JsonUser(user))

\* authorize after user.findUnique({ email: credentials.email }).
authorizeResume(r, us) ==
    LET user == UserFindUnique(us, r.email)
    IN  IF user = Null THEN AuthorizeThrow(r, "Email does not exist")
        ELSE IF Falsy(user.hashedPassword)
        THEN AuthorizeThrow(r, "Email does not exist")
        ELSE IF ~compare(r.password, user.hashedPassword)
        THEN AuthorizeThrow(r, "Incorrect password")
        ELSE Respond(r, 200, JsonUser(user))

----------------------------------------------------------------------------
(* The browser: SWR cache and API calls *)

\* The keys the hooks hand to useSWR.
CurrentKey == "/api/current"
FavoritesKey == "/api/favorites"
MoviesKey == "/api/movies"
RandomKey == "/api/random"
MovieKey(id) == "/api/movies/" \o id

ModalIds == {"m1", "m2"}
KeySeq == <<CurrentKey, FavoritesKey, MoviesKey, RandomKey, MovieKey("m1"),
            MovieKey("m2"), MovieKey(Undefined)>>
Keys == Range(KeySeq)
NullKey == "null"

\* A cache entry: the data (none before the first answer), whether the last
\* answer was an error, and the call that is the key's latest fetch.
NoData == [kind |-> "none"]
CacheEntry(data, error, latest) ==
    [data |-> data, error |-> error, latest |-> latest]
EmptyCache == [key \in Keys |-> CacheEntry(NoData, FALSE, 0)]

\* The options each hook passes to useSWR; useCurrentUser passes none and
\* gets SWR's defaults.
SWRDefaults ==
    [revalidateIfStale |-> TRUE, revalidateOnFocus |-> TRUE,
     revalidateOnReconnect |-> TRUE, shouldRetryOnError |-> TRUE]

\* Hooks that leave every option at its default.
Config_defaults(key) == SWRDefaults

\* useSWR(key, fetcher, { revalidateIfStale: false, ... })
Config(key) ==
    IF key = CurrentKey THEN SWRDefaults
    ELSE [SWRDefaults EXCEPT !.revalidateIfStale = FALSE,
                             !.revalidateOnFocus = FALSE,
                             !.revalidateOnReconnect = FALSE]

\* A single-movie hook that builds its key whatever the id.
useMovieKey_always(id) == MovieKey(id)

\* useMovie's key: id ? `/api/movies/${id}` : null
useMovieKey(id) == IF Falsy(id) THEN NullKey ELSE MovieKey(id)

\* The request fetcher(key) sends: axios.get(key) with the session cookie.
KeyInput(key, cookieValue) ==
    LET get(endpoint, movieId) ==
            Input(endpoint, "GET", cookieValue, movieId, Undefined,
                  Undefined, Undefined)
    IN  CASE key = CurrentKey -> get("current", Undefined)
          [] key = FavoritesKey -> get("favorites", Undefined)
          [] key = MoviesKey -> get("movies", Undefined)
          [] key = RandomKey -> get("random", Undefined)
          [] OTHER ->
               get("movie", CHOOSE id \in ModalIds \cup {Undefined} :
                                MovieKey(id) = key)

\* What the browser keeps about an API call it has issued: a hook's fetch
\* of a key (and what caused it) or a favorite toggle (and the currentUser
\* its callback closed over).
Call(kind, key, cause, closure) ==
    [kind |-> kind, key |-> key, cause |-> cause, closure |-> closure,
     delivered |-> FALSE]

\* The keys of the hooks that are mounted: the page's hooks and, when its
\* key is not null, the info modal's useMovie.
Mounted(modalId) ==
    {CurrentKey, FavoritesKey, MoviesKey, RandomKey}
        \cup ({useMovieKey(modalId)} \ {NullKey})

\* The latest fetch of key has not been answered yet.
Fetching(key) ==
    /\ cache[key].latest # 0
    /\ ~calls[cache[key].latest].delivered

\* The endpoint the favorite button writes to.
FavoriteUrl == "/api/favorite"

\* currentUser?.favoriteIds || []
FavoriteIdsOf(currentUser) ==
    IF currentUser.kind = "none" THEN <<>> ELSE currentUser.user.favoriteIds

\* A button that takes every movie for one that is not a favorite yet.
isFavorite_never(currentUser, movieId) == FALSE

\* FavoriteButton's isFavorite: list.includes(movieId)
isFavorite(currentUser, movieId) ==
    movieId \in Range(FavoriteIdsOf(currentUser))

\* The request toggleFavorites sends: axios.delete('/api/favorite',
\* { data: { movieId } }) when isFavorite, axios.post('/api/favorite',
\* { movieId }) otherwise.
ToggleInput(currentUser, movieId, cookieValue) ==
    Input("favorite",
          IF isFavorite(currentUser, movieId) THEN "DELETE" ELSE "POST",
          cookieValue, movieId, Undefined, Undefined, Undefined)

\* { ...currentUser, favoriteIds: updatedFavoriteIds }
Merged(currentUser, updatedFavoriteIds) ==
    IF currentUser.kind = "none"
    THEN [kind |-> "user", user |-> [favoriteIds |-> updatedFavoriteIds]]
    ELSE [currentUser EXCEPT !.user.favoriteIds = updatedFavoriteIds]

\* No browser: the state of the specifications of the handlers alone.
NoClient ==
    /\ pages = <<>>
    /\ cache = EmptyCache
    /\ calls = <<>>
    /\ modal = Undefined
    /\ cookie = NoSession

\* getSession(context) in getServerSideProps: the session of the request's
\* cookie, null without one.
getSession(cookieValue) == cookieValue

Redirect(destination) == [kind |-> "redirect", destination |-> destination]
Rendered(page) == [kind |-> "page", destination |-> page]

GatedPages == {"profiles", "browse"}
Pages == {"index", "profiles", "browse", "watch"}

\* What the server answers to a request for a page: the outcome of the
\* page's getServerSideProps when it exports one, the rendered page when it
\* does not (watch/[movieId].tsx exports only the component).
PageResponse(page, cookieValue) ==
    LET session == getSession(cookieValue)
    IN  CASE page \in GatedPages ->
                IF session = NoSession THEN Redirect("/auth")
                ELSE Rendered(page)
          [] page = "index" ->
                IF session # NoSession THEN Redirect("/browse")
                ELSE Rendered(page)
          [] OTHER -> Rendered(page)

----------------------------------------------------------------------------
(* Actions *)

\* A request arrives and its handler runs up to its first database call.
Receive(inp, maxRequests, maxInFlight) ==
    /\ Len(reqs) < maxRequests
    /\ Cardinality(InFlight) < maxInFlight
    /\ reqs' = Append(reqs, HandlerEntry(inp))
    /\ UNCHANGED <<users, movies>>
    /\ UNCHANGED clientVars

\* serverAuth's user.findUnique resolves.
AuthLookup(i) ==
    /\ reqs[i].pc = "auth"
    /\ reqs' = [reqs EXCEPT ![i] = serverAuthResume(reqs[i], users)]
    /\ UNCHANGED <<users, movies>>
    /\ UNCHANGED clientVars

\* GET /api/movies: movie.findMany() resolves.
MoviesFindMany(i) ==
    /\ reqs[i].pc = "findMany"
    /\ reqs' = [reqs EXCEPT ![i] = MoviesResume(reqs[i], movies)]
    /\ UNCHANGED <<users, movies>>
    /\ UNCHANGED clientVars

\* GET /api/movies/[movieId]: movie.findUnique resolves.
MovieFind(i) ==
    /\ reqs[i].pc = "findMovie"
    /\ reqs' = [reqs EXCEPT ![i] = MovieResume(reqs[i], movies)]
    /\ UNCHANGED <<users, movies>>
    /\ UNCHANGED clientVars

\* GET /api/random: movie.count() resolves and the index is drawn.
RandomCount(i) ==
    /\ reqs[i].pc = "count"
    /\ \E randomIndex \in RandomIndexes(Len(movies)) :
          reqs' = [reqs EXCEPT ![i] =
                      Await([reqs[i] EXCEPT !.local = <<randomIndex>>],
                            "skipTake")]
    /\ UNCHANGED <<users, movies>>
    /\ UNCHANGED clientVars

\* GET /api/random: movie.findMany({ take: 1, skip }) resolves.
RandomFindMany(i) ==
    /\ reqs[i].pc = "skipTake"
    /\ reqs' = [reqs EXCEPT ![i] =
                   Respond(reqs[i], 200,
                           RandomResponse(
                               MovieFindManySkipTake(movies,
                                                     reqs[i].local[1])))]
    /\ UNCHANGED <<users, movies>>
    /\ UNCHANGED clientVars

\* GET /api/favorites: movie.findMany({ id in favoriteIds }) resolves.
FavoritesFindMany(i) ==
    /\ reqs[i].pc = "findFavorites"
    /\ reqs' = [reqs EXCEPT ![i] =
                   Respond(reqs[i], 200,
                           JsonMovies(MovieFindManyIn(
                               movies, reqs[i].currentUser.favoriteIds)))]
    /\ UNCHANGED <<users, movies>>
    /\ UNCHANGED clientVars

\* POST/DELETE /api/favorite: movie.findUnique resolves.
FavoriteExisting(i) ==
    /\ reqs[i].pc = "existingMovie"
    /\ reqs' = [reqs EXCEPT ![i] = FavoriteExistingResume(reqs[i], movies)]
    /\ UNCHANGED <<users, movies>>
    /\ UNCHANGED clientVars

\* POST/DELETE /api/favorite: user.update resolves.
FavoriteUpdate(i) ==
    LET r == reqs[i]
        email == r.currentUser.email
    IN  /\ r.pc \in {"push", "set"}
        /\ IF HasUser(users, email)
           THEN /\ users' = UserSetFavorites(
                               users, email,
                               FavoriteWrite(
                                   r, UserFindUnique(users, email).favoriteIds))
                /\ reqs' = [reqs EXCEPT ![i] =
                               Respond(r, 200,
                                       JsonUser(UserFindUnique(users', email)))]
           ELSE /\ users' = users
                /\ reqs' = [reqs EXCEPT ![i] =
                               Throw(r, "prisma", "Record to update not found")]
        /\ UNCHANGED movies
        /\ UNCHANGED clientVars

\* POST /api/register: user.findUnique resolves.
RegisterFind(i) ==
    /\ reqs[i].pc = "regFind"
    /\ reqs' = [reqs EXCEPT ![i] = RegisterFindResume(reqs[i], users)]
    /\ UNCHANGED <<users, movies>>
    /\ UNCHANGED clientVars

\* POST /api/register: user.create resolves.
RegisterCreate(i) ==
    LET r == reqs[i]
        data == RegisterData(r.email, r.name, r.local[1])
    IN  /\ r.pc = "create"
        /\ IF ~UserCreateValid(data)
           THEN /\ users' = users
                /\ reqs' = [reqs EXCEPT ![i] =
                               Throw(r, "prisma", "Argument name is missing")]
           ELSE IF UserCreateAllowed(users, r.email)
           THEN /\ users' = Append(users, data)
                /\ reqs' = [reqs EXCEPT ![i] = Respond(r, 200, JsonUser(data))]
           ELSE /\ users' = users
                /\ reqs' = [reqs EXCEPT ![i] =
                               Throw(r, "prisma", "Unique constraint failed")]
        /\ UNCHANGED movies
        /\ UNCHANGED clientVars

\* A credentials sign-in arrives: authorize runs up to its database call.
SignIn(credentials, maxRequests, maxInFlight) ==
    /\ Len(reqs) < maxRequests
    /\ Cardinality(InFlight) < maxInFlight
    /\ reqs' = Append(reqs, authorizeEntry(Invocation(credentials)))
    /\ UNCHANGED <<users, movies>>
    /\ UNCHANGED clientVars

\* authorize: user.findUnique resolves.
AuthorizeFind(i) ==
    /\ reqs[i].pc = "authorizeFind"
    /\ reqs' = [reqs EXCEPT ![i] = authorizeResume(reqs[i], users)]
    /\ UNCHANGED <<users, movies>>
    /\ UNCHANGED clientVars

\* Outside the API: an account is removed from the store while sessions
\* issued for it are still in circulation.
DeleteUser(email) ==
    /\ HasUser(users, email)
    /\ users' = SelectSeq(users, LAMBDA u : u.email # email)
    /\ UNCHANGED <<movies, reqs>>
    /\ UNCHANGED clientVars

\* The browser asks for a page.
Visit(page) ==
    /\ Len(pages) < MaxVisits
    /\ pages' = Append(pages, [page |-> page, session |-> cookie,
                               response |-> PageResponse(page, cookie)])
    /\ UNCHANGED <<users, movies, reqs, cache, calls, modal, cookie>>

\* The calls the browser is still waiting for.
Pending == {i \in DOMAIN calls : ~calls[i].delivered}

\* Room for more calls within the bounds of the specification.
Room(count) ==
    /\ Len(calls) + count <= MaxCalls
    /\ Cardinality(Pending) + count <= MaxInFlight

\* The hooks of keySeq start a fetch each: fetcher sends the request and
\* the fetch becomes its key's latest.
Starts(keySeq, cause) ==
    /\ reqs' = reqs \o [k \in DOMAIN keySeq |->
                            HandlerEntry(KeyInput(keySeq[k], cookie))]
    /\ calls' = calls \o [k \in DOMAIN keySeq |->
                              Call("fetch", keySeq[k], cause, Null)]
    /\ cache' = [key \in Keys |->
                    IF key \in Range(keySeq)
                    THEN [cache[key] EXCEPT !.latest =
                             Len(calls) + CHOOSE k \in DOMAIN keySeq :
                                              keySeq[k] = key]
                    ELSE cache[key]]

\* useSWR's effect on mount and on a change of key: revalidate when there
\* is no cached data or revalidateIfStale is set, deduplicated against a
\* fetch of the key still in flight.
MountEffect(key) ==
    IF /\ key # NullKey
       /\ cache[key].data = NoData \/ Config(key).revalidateIfStale
       /\ ~Fetching(key)
    THEN Starts(<<key>>, IF cache[key].data = NoData THEN "mount" ELSE "stale")
    ELSE UNCHANGED <<reqs, calls, cache>>

\* A component using one of the page's hooks mounts.
Mount(key) ==
    /\ Room(1)
    /\ MountEffect(key)
    /\ UNCHANGED <<users, movies, pages, modal, cookie>>

\* useInfoModal.openModal(movieId), and the info modal's useMovie(movieId)
\* rendering with the new id.
openModal(movieId) ==
    /\ Room(1)
    /\ modal' = movieId
    /\ MountEffect(useMovieKey(movieId))
    /\ UNCHANGED <<users, movies, pages, cookie>>

\* useInfoModal.closeModal(), and useMovie(undefined) rendering.
closeModal ==
    /\ Room(1)
    /\ modal' = Undefined
    /\ MountEffect(useMovieKey(Undefined))
    /\ UNCHANGED <<users, movies, pages, cookie>>

\* The window regains focus: every mounted hook with revalidateOnFocus
\* revalidates.
Focus ==
    LET keySeq == SelectSeq(KeySeq, LAMBDA key :
                      /\ key \in Mounted(modal)
                      /\ Config(key).revalidateOnFocus
                      /\ ~Fetching(key))
    IN  /\ Room(Len(keySeq))
        /\ Starts(keySeq, "focus")
        /\ UNCHANGED <<users, movies, pages, modal, cookie>>

\* The network comes back: every mounted hook with revalidateOnReconnect
\* revalidates.
Reconnect ==
    LET keySeq == SelectSeq(KeySeq, LAMBDA key :
                      /\ key \in Mounted(modal)
                      /\ Config(key).revalidateOnReconnect
                      /\ ~Fetching(key))
    IN  /\ Room(Len(keySeq))
        /\ Starts(keySeq, "reconnect")
        /\ UNCHANGED <<users, movies, pages, modal, cookie>>

\* SWR's onErrorRetry: a mounted hook whose last fetch failed fetches again.
ErrorRetry(key) ==
    /\ Room(1)
    /\ key \in Mounted(modal)
    /\ Config(key).shouldRetryOnError
    /\ cache[key].error
    /\ ~Fetching(key)
    /\ Starts(<<key>>, "retry")
    /\ UNCHANGED <<users, movies, pages, modal, cookie>>

\* The hook's bound mutate() called without data: revalidate now, without
\* deduplication.
Mutate(key) ==
    /\ Room(1)
    /\ Starts(<<key>>, "mutate")
    /\ UNCHANGED <<users, movies, pages, modal, cookie>>

\* A cache that applies every response in the order of arrival.
DeliverFetch_stale(i) ==
    /\ calls[i].kind = "fetch"
    /\ ~calls[i].delivered
    /\ reqs[i].pc = "done"
    /\ calls' = [calls EXCEPT ![i].delivered = TRUE]
    /\ cache' = IF reqs[i].status = 200
                THEN [cache EXCEPT ![calls[i].key].data = reqs[i].body,
                                   ![calls[i].key].error = FALSE]
                ELSE [cache EXCEPT ![calls[i].key].error = TRUE]
    /\ UNCHANGED <<users, movies, reqs, pages, modal, cookie>>

\* The response of a fetch reaches SWR: it is applied only when the fetch
\* is still its key's latest; a non-2xx status makes axios reject, which
\* sets the key's error and keeps its data.
DeliverFetch(i) ==
    /\ calls[i].kind = "fetch"
    /\ ~calls[i].delivered
    /\ reqs[i].pc = "done"
    /\ calls' = [calls EXCEPT ![i].delivered = TRUE]
    /\ cache' = IF cache[calls[i].key].latest # i
                THEN cache
                ELSE IF reqs[i].status = 200
                THEN [cache EXCEPT ![calls[i].key].data = reqs[i].body,
                                   ![calls[i].key].error = FALSE]
                ELSE [cache EXCEPT ![calls[i].key].error = TRUE]
    /\ UNCHANGED <<users, movies, reqs, pages, modal, cookie>>

\* A click on the favorite button of movieId: toggleFavorites runs up to
\* its await, with the currentUser its callback closed over.
Click(movieId) ==
    /\ Len(calls) + 2 * Cardinality({i \in Pending : calls[i].kind = "toggle"})
           + 3 <= MaxTraffic
    /\ reqs' = Append(reqs, HandlerEntry(ToggleInput(cache[CurrentKey].data,
                                                     movieId, cookie)))
    /\ calls' = Append(calls, Call("toggle", FavoriteUrl, "click",
                                   cache[CurrentKey].data))
    /\ UNCHANGED <<users, movies, pages, cache, modal, cookie>>

\* The response of a toggle arrives. A 2xx response resumes toggleFavorites:
\* mutate({ ...currentUser, favoriteIds }) writes the cached current user and
\* revalidates it, and mutateFavorites() revalidates the favorites list. Any
\* other status makes axios reject and toggleFavorites ends there.
DeliverToggle(i) ==
    /\ calls[i].kind = "toggle"
    /\ ~calls[i].delivered
    /\ reqs[i].pc = "done"
    /\ IF reqs[i].status = 200
       THEN /\ cache' =
                  [cache EXCEPT
                      ![CurrentKey] =
                          CacheEntry(Merged(calls[i].closure,
                                            reqs[i].body.user.favoriteIds),
                                     FALSE, Len(calls) + 1),
                      ![FavoritesKey].latest = Len(calls) + 2]
            /\ calls' = [calls EXCEPT ![i].delivered = TRUE]
                            \o <<Call("fetch", CurrentKey, "mutate", Null),
                                 Call("fetch", FavoritesKey, "mutate", Null)>>
            /\ reqs' = reqs
                           \o <<HandlerEntry(KeyInput(CurrentKey, cookie)),
                                HandlerEntry(KeyInput(FavoritesKey, cookie))>>
       ELSE /\ calls' = [calls EXCEPT ![i].delivered = TRUE]
            /\ UNCHANGED <<reqs, cache>>
    /\ UNCHANGED <<users, movies, pages, modal, cookie>>

----------------------------------------------------------------------------
(* Specifications *)

Catalog == [k \in DOMAIN CatalogIds |-> Movie(CatalogIds[k])]

StoredUser(email, password, favoriteIds) ==
    [UserDoc(email, "name", BcryptHash(password))
        EXCEPT !.favoriteIds = favoriteIds]

Sessions == {NoSession, SessionOf(Undefined), SessionOf(EmailA),
             SessionOf(EmailB)}

\* The requests clients send in Spec: every endpoint with every kind of
\* session, a method outside its set with and without a session, and the
\* identifiers and bodies that take each branch of a handler.
Bare(endpoint, method, session) ==
    Input(endpoint, method, session, Undefined, Undefined, Undefined,
          Undefined)
WithMovie(endpoint, method, session, movieId) ==
    Input(endpoint, method, session, movieId, Undefined, Undefined, Undefined)
Registration(method, session, email, password) ==
    Input("register", method, session, Undefined, email, "name", password)

GetInputs ==
    {Bare(endpoint, "GET", session) :
        endpoint \in {"current", "movies", "random", "favorites"},
        session \in Sessions}
MovieInputs ==
    {WithMovie("movie", "GET", session, "m1") : session \in Sessions}
    \cup {WithMovie("movie", "GET", SessionOf(EmailA), movieId) :
            movieId \in {UnknownId, Undefined}}
FavoriteInputs ==
    {WithMovie("favorite", method, session, "m1") :
        method \in {"POST", "DELETE"}, session \in Sessions}
    \cup {WithMovie("favorite", method, SessionOf(EmailA), movieId) :
            method \in {"POST", "DELETE"}, movieId \in {"m2", UnknownId}}
    \cup {WithMovie("favorite", "POST", SessionOf(EmailA), Undefined)}
RegisterInputs ==
    {Registration("POST", NoSession, email, "pw") : email \in Emails}
    \cup {Registration("POST", NoSession, EmailB, Undefined)}
WrongMethodInputs ==
    {Bare(endpoint, "POST", session) :
        endpoint \in {"current", "movies", "random", "favorites"},
        session \in {NoSession, SessionOf(EmailA)}}
    \cup {WithMovie(endpoint, method, session, "m1") :
            endpoint \in {"movie", "favorite"}, method \in {"PUT"},
            session \in {NoSession, SessionOf(EmailA)}}
    \cup {Registration("GET", session, EmailB, "pw") :
            session \in {NoSession, SessionOf(EmailA)}}
Inputs ==
    GetInputs \cup MovieInputs \cup FavoriteInputs \cup RegisterInputs
    \cup WrongMethodInputs

Init ==
    /\ users = <<StoredUser(EmailA, "pwA", <<"m1">>)>>
    /\ movies = Catalog
    /\ reqs = <<>>
    /\ NoClient

Next ==
    \/ \E inp \in Inputs : Receive(inp, MaxRequests, MaxInFlight)
    \/ \E i \in DOMAIN reqs : AuthLookup(i)
    \/ \E i \in DOMAIN reqs : MoviesFindMany(i)
    \/ \E i \in DOMAIN reqs : MovieFind(i)
    \/ \E i \in DOMAIN reqs : RandomCount(i)
    \/ \E i \in DOMAIN reqs : RandomFindMany(i)
    \/ \E i \in DOMAIN reqs : FavoritesFindMany(i)
    \/ \E i \in DOMAIN reqs : FavoriteExisting(i)
    \/ \E i \in DOMAIN reqs : FavoriteUpdate(i)
    \/ \E i \in DOMAIN reqs : RegisterFind(i)
    \/ \E i \in DOMAIN reqs : RegisterCreate(i)
    \/ \E email \in Emails : DeleteUser(email)

Spec == Init /\ [][Next]_vars

\* One client at a time: the favorites endpoints called back to back, each
\* request issued after the previous response, by two users.
SeqInputs ==
    {WithMovie("favorite", method, SessionOf(email), movieId) :
        method \in {"POST", "DELETE"}, email \in Emails,
        movieId \in {"m1", "m2"}}
    \cup {Bare("favorites", "GET", SessionOf(email)) : email \in Emails}

SeqInit ==
    /\ users = <<StoredUser(EmailA, "pwA", <<>>),
                 StoredUser(EmailB, "pwB", <<"m2">>)>>
    /\ movies = Catalog
    /\ reqs = <<>>
    /\ NoClient

SeqNext ==
    \/ \E inp \in SeqInputs : Receive(inp, SeqMaxRequests, 1)
    \/ \E i \in DOMAIN reqs : AuthLookup(i)
    \/ \E i \in DOMAIN reqs : FavoritesFindMany(i)
    \/ \E i \in DOMAIN reqs : FavoriteExisting(i)
    \/ \E i \in DOMAIN reqs : FavoriteUpdate(i)

SeqSpec == SeqInit /\ [][SeqNext]_vars

\* The read-only catalog endpoints over a catalog of zero, one or two
\* movies, asked by two stored users with different favorites.
ReadInputs ==
    {Bare(endpoint, "GET", session) :
        endpoint \in {"movies", "random"},
        session \in {NoSession, SessionOf(EmailA), SessionOf(EmailB)}}
    \cup {WithMovie("movie", "GET", SessionOf(EmailA), movieId) :
            movieId \in {"m1", "m2", UnknownId, "", Undefined}}
    \cup {WithMovie("movie", "GET", NoSession, "m1")}

ReadInit ==
    /\ users = <<StoredUser(EmailA, "pwA", <<"m1">>),
                 StoredUser(EmailB, "pwB", <<>>)>>
    /\ movies \in {SubSeq(Catalog, 1, n) : n \in 0 .. Len(Catalog)}
    /\ reqs = <<>>
    /\ NoClient

ReadNext ==
    \/ \E inp \in ReadInputs : Receive(inp, MaxRequests, MaxInFlight)
    \/ \E i \in DOMAIN reqs : AuthLookup(i)
    \/ \E i \in DOMAIN reqs : MoviesFindMany(i)
    \/ \E i \in DOMAIN reqs : MovieFind(i)
    \/ \E i \in DOMAIN reqs : RandomCount(i)
    \/ \E i \in DOMAIN reqs : RandomFindMany(i)

ReadSpec == ReadInit /\ [][ReadNext]_vars

\* Accounts: registrations with each field present or missing, and
\* credentials sign-ins for a registered account, an account created by an
\* OAuth sign-in (no hashed password) and an email one can register.
EmailO == "o@x"

Credentials(email, password) ==
    Input("authorize", "POST", NoSession, Undefined, email, Undefined,
          password)

RegistrationBody(email, name, password) ==
    Input("register", "POST", NoSession, Undefined, email, name, password)

AccountInputs ==
    {RegistrationBody(EmailB, name, password) :
        name \in {"name", Undefined}, password \in {"pw", Undefined}}
    \cup {RegistrationBody(Undefined, "name", "pw"),
          RegistrationBody(EmailA, Undefined, "pw")}

CredentialInputs ==
    {Credentials(email, password) :
        email \in {EmailA, EmailB, EmailO}, password \in {"pwA", "pw"}}
    \cup {Credentials(Undefined, "pw"), Credentials("", "pw"),
          Credentials(EmailA, Undefined), Credentials(EmailA, "")}

AccountInit ==
    /\ users = <<StoredUser(EmailA, "pwA", <<>>),
                 UserDoc(EmailO, "name", Undefined)>>
    /\ movies = Catalog
    /\ reqs = <<>>
    /\ NoClient

AccountNext ==
    \/ \E inp \in AccountInputs :
          Receive(inp, AccountMaxRequests, MaxInFlight)
    \/ \E i \in DOMAIN reqs : RegisterFind(i)
    \/ \E i \in DOMAIN reqs : RegisterCreate(i)
    \/ \E credentials \in CredentialInputs :
          SignIn(credentials, AccountMaxRequests, MaxInFlight)
    \/ \E i \in DOMAIN reqs : AuthorizeFind(i)

AccountSpec == AccountInit /\ [][AccountNext]_vars

\* Page requests from a browser with and without a session cookie.
PageInit ==
    /\ users = <<StoredUser(EmailA, "pwA", <<>>)>>
    /\ movies = Catalog
    /\ reqs = <<>>
    /\ pages = <<>>
    /\ cache = EmptyCache
    /\ calls = <<>>
    /\ modal = Undefined
    /\ cookie \in {NoSession, SessionOf(EmailA)}

PageNext == \E page \in Pages : Visit(page)

PageSpec == PageInit /\ [][PageNext]_vars

\* Favorite requests of two users who start without favorites, running
\* concurrently against the catalog.
FavInputs ==
    {WithMovie("favorite", method, SessionOf(EmailA), movieId) :
        method \in {"POST", "DELETE"}, movieId \in {"m1", "m2"}}
    \cup {WithMovie("favorite", "POST", SessionOf(EmailB), "m1"),
          WithMovie("favorite", "POST", SessionOf(EmailA), UnknownId),
          Bare("favorites", "GET", SessionOf(EmailA))}

FavInit ==
    /\ users = <<StoredUser(EmailA, "pwA", <<>>),
                 StoredUser(EmailB, "pwB", <<>>)>>
    /\ movies = Catalog
    /\ reqs = <<>>
    /\ NoClient

FavNext ==
    \/ \E inp \in FavInputs : Receive(inp, FavMaxRequests, MaxInFlight)
    \/ \E i \in DOMAIN reqs : AuthLookup(i)
    \/ \E i \in DOMAIN reqs : FavoriteExisting(i)
    \/ \E i \in DOMAIN reqs : FavoriteUpdate(i)
    \/ \E i \in DOMAIN reqs : FavoritesFindMany(i)

FavSpec == FavInit /\ [][FavNext]_vars

\* The browse page's hooks and the info modal in one browser, with and
\* without a valid session cookie, against the read handlers.
HookInit ==
    /\ users = <<StoredUser(EmailA, "pwA", <<"m1">>)>>
    /\ movies = Catalog
    /\ reqs = <<>>
    /\ pages = <<>>
    /\ cache = EmptyCache
    /\ calls = <<>>
    /\ modal = Undefined
    /\ cookie \in {NoSession, SessionOf(EmailA)}

HookNext ==
    \/ \E key \in {CurrentKey, FavoritesKey, MoviesKey, RandomKey} : Mount(key)
    \/ \E movieId \in ModalIds : openModal(movieId)
    \/ closeModal
    \/ Focus
    \/ Reconnect
    \/ \E key \in Keys : ErrorRetry(key)
    \/ \E key \in {CurrentKey, FavoritesKey} : Mutate(key)
    \/ \E i \in DOMAIN calls : DeliverFetch(i)
    \/ \E i \in DOMAIN reqs : AuthLookup(i)
    \/ \E i \in DOMAIN reqs : MoviesFindMany(i)
    \/ \E i \in DOMAIN reqs : MovieFind(i)
    \/ \E i \in DOMAIN reqs : RandomCount(i)
    \/ \E i \in DOMAIN reqs : RandomFindMany(i)
    \/ \E i \in DOMAIN reqs : FavoritesFindMany(i)

HookSpec == HookInit /\ [][HookNext]_vars

\* One signed-in browser on the browse page clicking favorite buttons: the
\* cards' buttons of m1 and m2 and the info modal's button, whose movie id
\* is undefined while the modal's movie is loading.
ButtonIds == {"m1", "m2", Undefined}

\* The finished handler invocation of a fetch of the current user or of the
\* favorites list that ran alone against users us and movies ms.
Fetched(key, cookieValue, us, ms) ==
    LET r == serverAuthResume(HandlerEntry(KeyInput(key, cookieValue)), us)
    IN  IF r.pc = "findFavorites"
        THEN Respond(r, 200,
                     JsonMovies(MovieFindManyIn(ms,
                                                r.currentUser.favoriteIds)))
        ELSE r

\* The browser once the page's hooks have fetched the current user and the
\* favorites list.
ClientInit ==
    /\ users = <<StoredUser(EmailA, "pwA", <<"m1">>)>>
    /\ movies = Catalog
    /\ pages = <<>>
    /\ modal = Undefined
    /\ cookie = SessionOf(EmailA)
    /\ reqs = <<Fetched(CurrentKey, cookie, users, movies),
                Fetched(FavoritesKey, cookie, users, movies)>>
    /\ calls = <<[Call("fetch", CurrentKey, "mount", Null)
                    EXCEPT !.delivered = TRUE],
                [Call("fetch", FavoritesKey, "mount", Null)
                    EXCEPT !.delivered = TRUE]>>
    /\ cache = [EmptyCache EXCEPT
                   ![CurrentKey] = CacheEntry(reqs[1].body, FALSE, 1),
                   ![FavoritesKey] = CacheEntry(reqs[2].body, FALSE, 2)]

ClientNext ==
    \/ \E movieId \in ButtonIds : Click(movieId)
    \/ \E i \in DOMAIN calls : DeliverToggle(i)
    \/ \E i \in DOMAIN calls : DeliverFetch(i)
    \/ \E i \in DOMAIN reqs : AuthLookup(i)
    \/ \E i \in DOMAIN reqs : FavoritesFindMany(i)
    \/ \E i \in DOMAIN reqs : FavoriteExisting(i)
    \/ \E i \in DOMAIN reqs : FavoriteUpdate(i)

ClientSpec == ClientInit /\ [][ClientNext]_vars

----------------------------------------------------------------------------
(* Vocabulary of the properties *)

Done(i) == reqs[i].pc = "done"
Ok(i) == Done(i) /\ reqs[i].status = 200

Protected == Endpoints \ {"register"}

\* The documented method set of each endpoint.
DocumentedMethods(endpoint) ==
    IF endpoint \in {"current", "movies", "movie", "random", "favorites"}
    THEN {"GET"}
    ELSE IF endpoint = "favorite" THEN {"POST", "DELETE"} ELSE {"POST"}

Count(value, array) == Cardinality({k \in DOMAIN array : array[k] = value})

MovieIdsOf(list) == {list[k].id : k \in DOMAIN list}

IsFavoriteCall(i, method, email, movieId) ==
    /\ reqs[i].endpoint = "favorite"
    /\ reqs[i].method = method
    /\ reqs[i].session = SessionOf(email)
    /\ reqs[i].movieId = movieId

IsFavoritesList(i, email) ==
    /\ reqs[i].endpoint = "favorites"
    /\ reqs[i].method = "GET"
    /\ reqs[i].session = SessionOf(email)

\* The step taken is the one in which invocation i leaves position pc.
Leaves(i, pc) == reqs[i].pc = pc /\ reqs'[i].pc # pc

----------------------------------------------------------------------------
(* Properties *)

\* C1: a protected request whose session email maps to no User record at the
\* moment serverAuth reads the store is answered 400 with an empty body (the
\* Unauthenticated failure, no catalog or user data), whatever the endpoint
\* and whatever earlier requests with that session returned; a response once
\* sent is never replaced.
C1_StaleSessionRejected ==
    [][\A i \in DOMAIN reqs :
          /\ (Leaves(i, "auth") /\ ~HasUser(users, reqs[i].session.user.email))
                => /\ reqs'[i].pc = "done"
                   /\ reqs'[i].status = 400
                   /\ reqs'[i].body = EmptyBody
                   /\ reqs'[i].thrown = Thrown("user", "Not signed in")
          /\ Done(i) => reqs'[i] = reqs[i]]_vars

\* The account a@x was stored, is gone, and a request carrying its session was
\* turned away after an earlier one with the same session had succeeded.
C1_Witness ==
    \E i, j \in DOMAIN reqs :
        /\ i < j
        /\ reqs[i].session = SessionOf(EmailA) /\ Ok(i)
        /\ reqs[j].session = SessionOf(EmailA)
        /\ reqs[j].endpoint \in Protected
        /\ Done(j) /\ reqs[j].status = 400
        /\ reqs[j].thrown.site = "user"
        /\ ~HasUser(users, EmailA)

\* C2: when GET /current finds a User stored under the session's email it
\* answers 200 with exactly that stored record, favoriteIds included, and
\* a 200 from /current never carries a record of another email.
C2_CurrentReturnsOwnRecord ==
    [][\A i \in DOMAIN reqs :
          (/\ reqs[i].endpoint = "current"
           /\ Leaves(i, "auth")
           /\ HasUser(users, reqs[i].session.user.email))
             => /\ reqs'[i].pc = "done"
                /\ reqs'[i].status = 200
                /\ reqs'[i].body.kind = "user"
                /\ reqs'[i].body.user.email = reqs[i].session.user.email
                /\ \E k \in DOMAIN users : users[k] = reqs'[i].body.user]_vars

\* /current answered for the second of two stored users.
C2_Witness ==
    \E i \in DOMAIN reqs :
        /\ reqs[i].endpoint = "current" /\ Ok(i)
        /\ Len(users) = 2
        /\ reqs[i].body.user = users[2]

\* C3: with requests issued one at a time, a GET /favorites that follows a
\* successful POST /favorite {X} by the same user, with no successful DELETE
\* of X in between, lists movie X, and the POST's returned user holds X; one
\* that follows a successful DELETE /favorite {X}, with no POST of X in
\* between, does not list X; from empty favorites add m1, list, remove m1,
\* list yields [m1] and then [].
C3_FavoritesRoundTrip ==
    \A email \in Emails, movieId \in Range(CatalogIds) :
      \A i, j \in DOMAIN reqs :
        (i < j /\ Ok(i) /\ Ok(j) /\ IsFavoritesList(j, email)) =>
          /\ (/\ IsFavoriteCall(i, "POST", email, movieId)
              /\ ~\E k \in (i + 1) .. (j - 1) :
                    IsFavoriteCall(k, "DELETE", email, movieId))
               => /\ movieId \in MovieIdsOf(reqs[j].body.movies)
                  /\ movieId \in Range(reqs[i].body.user.favoriteIds)
          /\ (/\ IsFavoriteCall(i, "DELETE", email, movieId)
              /\ ~\E k \in (i + 1) .. (j - 1) :
                    IsFavoriteCall(k, "POST", email, movieId))
               => movieId \notin MovieIdsOf(reqs[j].body.movies)

\* User a@x, starting from no favorites: add m1, list, remove m1, list.
C3_Witness ==
    /\ Len(reqs) = 4
    /\ \A i \in 1 .. 4 : Ok(i)
    /\ IsFavoriteCall(1, "POST", EmailA, "m1")
    /\ IsFavoritesList(2, EmailA)
    /\ IsFavoriteCall(3, "DELETE", EmailA, "m1")
    /\ IsFavoritesList(4, EmailA)
    /\ reqs[2].body.movies = <<Movie("m1")>>
    /\ reqs[4].body.movies = <<>>

C5_AddIdempotent ==
    \A i, j \in DOMAIN reqs :
        (/\ i < j /\ Ok(i) /\ Ok(j)
         /\ \E email \in Emails, movieId \in Range(CatalogIds) :
               /\ IsFavoriteCall(i, "POST", email, movieId)
               /\ IsFavoriteCall(j, "POST", email, movieId)
               /\ \A k \in (i + 1) .. (j - 1) : reqs[k].session # reqs[i].session)
            => /\ reqs[j].body.user.favoriteIds = reqs[i].body.user.favoriteIds
               /\ Count(reqs[j].movieId, reqs[j].body.user.favoriteIds) = 1

\* C6: when the registration handler's existence check finds a User under
\* the email it answers 422 {error: "Email taken"} and the store is left as
\* it was; when the email is free at the check and at the create (and a
\* password was sent) it answers 200 and the store gains exactly one User, the
\* only one under that email, whose hashedPassword is not the plaintext; a
\* registration that does not answer 200 creates nothing.
C6_RegisterConflictOrCreate ==
    [][\A i \in DOMAIN reqs :
          LET r == reqs[i]
              after == reqs'[i]
              created == users'[Len(users')]
          IN  /\ (Leaves(i, "regFind") /\ HasUser(users, r.email))
                   => /\ after.pc = "done"
                      /\ after.status = 422
                      /\ after.body = JsonError("Email taken")
                      /\ users' = users
              /\ (/\ Leaves(i, "regFind")
                  /\ ~HasUser(users, r.email)
                  /\ r.email # Undefined /\ r.password # Undefined)
                   => after.pc = "create" /\ users' = users
              /\ (Leaves(i, "create") /\ ~HasUser(users, r.email))
                   => /\ after.pc = "done" /\ after.status = 200
                      /\ Len(users') = Len(users) + 1
                      /\ SubSeq(users', 1, Len(users)) = users
                      /\ created.email = r.email
                      /\ created.hashedPassword # r.password
                      /\ Cardinality({k \in DOMAIN users' :
                                        users'[k].email = r.email}) = 1
                      /\ after.body = JsonUser(created)
              /\ (/\ r.endpoint = "register" /\ ~Done(i)
                  /\ after.pc = "done" /\ after.status # 200)
                   => users' = users]_vars

\* One registration created b@x with a hashed password and a second one for
\* the same email was refused with 422.
C6_Witness ==
    \E i, j \in DOMAIN reqs :
        /\ reqs[i].endpoint = "register" /\ Ok(i) /\ reqs[i].email = EmailB
        /\ reqs[j].endpoint = "register" /\ Done(j) /\ reqs[j].status = 422
        /\ reqs[j].email = EmailB
        /\ HasUser(users, EmailB)
        /\ UserFindUnique(users, EmailB).hashedPassword # reqs[i].password

\* C7: no two User records share an email, in every reachable state, also when
\* two registrations for the same free email both pass the existence check
\* before either creates.
C7_EmailUnique ==
    \A j, k \in DOMAIN users : users[j].email = users[k].email => j = k

\* Two registrations for b@x both passed the existence check and issued their
\* create; one created the record, the other was refused by the store.
C7_Witness ==
    \E i, j \in DOMAIN reqs :
        /\ i # j
        /\ reqs[i].endpoint = "register" /\ reqs[j].endpoint = "register"
        /\ reqs[i].email = EmailB /\ reqs[j].email = EmailB
        /\ reqs[i].dbCalls = 2 /\ reqs[j].dbCalls = 2
        /\ Ok(i)
        /\ Done(j) /\ reqs[j].status = 400 /\ reqs[j].thrown.site = "prisma"
        /\ Cardinality({k \in DOMAIN users : users[k].email = EmailB}) = 1

\* C8: a request whose method is outside the endpoint's documented set is
\* answered 405 with an empty body straight away, with or without a valid
\* session, and its handler makes no database call and reads no user.
C8_MethodGuardFirst ==
    \A i \in DOMAIN reqs :
        reqs[i].method \notin DocumentedMethods(reqs[i].endpoint)
            => /\ Done(i)
               /\ reqs[i].status = 405
               /\ reqs[i].body = EmptyBody
               /\ reqs[i].dbCalls = 0
               /\ reqs[i].currentUser = Null
               /\ reqs[i].thrown = NoError

\* The same wrong-method request was refused once with the session of a
\* stored user and once with no session.
C8_Witness ==
    \E i, j \in DOMAIN reqs :
        /\ reqs[i].endpoint = reqs[j].endpoint
        /\ reqs[i].method = reqs[j].method
        /\ reqs[i].method \notin DocumentedMethods(reqs[i].endpoint)
        /\ reqs[i].session = SessionOf(EmailA) /\ HasUser(users, EmailA)
        /\ reqs[j].session = NoSession
        /\ reqs[i].status = 405 /\ reqs[j].status = 405

C10_AuthFailuresIndistinguishable ==
    \A i, j \in DOMAIN reqs :
        (/\ reqs[i].endpoint \in Protected
         /\ reqs[i].endpoint = reqs[j].endpoint
         /\ reqs[i].method = reqs[j].method
         /\ reqs[i].movieId = reqs[j].movieId
         /\ reqs[i].thrown.site = "session"
         /\ reqs[j].thrown.site = "user")
            => /\ reqs[i].status = reqs[j].status
               /\ reqs[i].body = reqs[j].body

\* The same favorite-add sent once with no session and once with the session
\* of an account that is not in the store.
C10_Witness ==
    \E i, j \in DOMAIN reqs :
        /\ IsFavoriteCall(i, "POST", EmailB, "m1")
        /\ reqs[j].endpoint = "favorite" /\ reqs[j].method = "POST"
        /\ reqs[j].movieId = "m1" /\ reqs[j].session = NoSession
        /\ reqs[i].thrown.site = "user"
        /\ reqs[j].thrown.site = "session"

\* The request passed serverAuth: it carries the record of a stored user.
Authenticated(i) == reqs[i].currentUser # Null

\* C11: an authenticated GET /movies/{id} answers 200 with the catalog movie
\* whose id equals the requested one when there is one; for an id of no
\* movie, an empty id and a missing or non-string id alike it throws
\* "Invalid ID" and answers 400 with an empty body.
C11_SingleMovieOrInvalidId ==
    \A i \in DOMAIN reqs :
        (reqs[i].endpoint = "movie" /\ Authenticated(i) /\ Done(i)) =>
            IF \E k \in DOMAIN movies : movies[k].id = reqs[i].movieId
            THEN /\ reqs[i].status = 200
                 /\ reqs[i].body.kind = "movie"
                 /\ reqs[i].body.movie.id = reqs[i].movieId
                 /\ \E k \in DOMAIN movies : movies[k] = reqs[i].body.movie
            ELSE /\ reqs[i].status = 400
                 /\ reqs[i].body = EmptyBody
                 /\ reqs[i].thrown = Thrown("validate", "Invalid ID")

\* A well-formed id of no movie and a missing id were both refused, one after
\* the database lookup and one before it.
C11_Witness ==
    \E i, j \in DOMAIN reqs :
        /\ reqs[i].endpoint = "movie" /\ reqs[j].endpoint = "movie"
        /\ Authenticated(i) /\ Authenticated(j)
        /\ reqs[i].movieId = UnknownId /\ reqs[i].dbCalls = 2
        /\ reqs[j].movieId = Undefined /\ reqs[j].dbCalls = 1
        /\ reqs[i].status = 400 /\ reqs[j].status = 400
        /\ reqs[i].body = reqs[j].body
        /\ Len(movies) > 0

C18_CatalogSameForAll ==
    \A i, j \in DOMAIN reqs :
        (/\ reqs[i].endpoint = "movies" /\ reqs[j].endpoint = "movies"
         /\ Ok(i) /\ Ok(j)) =>
            /\ reqs[i].body = JsonMovies(movies)
            /\ reqs[i].body = reqs[j].body

\* Two stored users with different favorites both listed a two-movie catalog.
C18_Witness ==
    \E i, j \in DOMAIN reqs :
        /\ reqs[i].endpoint = "movies" /\ reqs[j].endpoint = "movies"
        /\ Ok(i) /\ Ok(j)
        /\ reqs[i].currentUser.email # reqs[j].currentUser.email
        /\ reqs[i].currentUser.favoriteIds # reqs[j].currentUser.favoriteIds
        /\ Len(reqs[i].body.movies) = 2

\* The request names a movie of the catalog.
NamesCatalogMovie(i) == \E k \in DOMAIN movies : movies[k].id = reqs[i].movieId

\* C12: a POST or DELETE /favorite whose movieId names no movie of the
\* catalog never reaches its write: no step of the request changes a stored
\* user or movie, and the request ends with status 400.
C12_FavoriteValidatesMovie ==
    [][\A i \in DOMAIN reqs :
          (/\ reqs[i].endpoint = "favorite"
           /\ reqs[i].method \in {"POST", "DELETE"}
           /\ ~NamesCatalogMovie(i)
           /\ reqs'[i] # reqs[i]) =>
              /\ users' = users
              /\ movies' = movies
              /\ reqs'[i].pc \notin {"push", "set"}
              /\ reqs'[i].pc = "done" => reqs'[i].status = 400]_vars

\* An authenticated add and an authenticated remove of an unknown movie were
\* both refused after the movie lookup, and the user's favorites are as
\* they were.
C12_Witness ==
    \E i, j \in DOMAIN reqs :
        /\ IsFavoriteCall(i, "POST", EmailA, UnknownId)
        /\ IsFavoriteCall(j, "DELETE", EmailA, UnknownId)
        /\ reqs[i].status = 400 /\ reqs[j].status = 400
        /\ reqs[i].thrown = Thrown("validate", "Invalid ID")
        /\ reqs[j].thrown = Thrown("validate", "Invalid ID")
        /\ UserFindUnique(users, EmailA).favoriteIds = <<"m1">>

\* The stored favoriteIds of the user with this email.
FavoritesOf(us, email) == UserFindUnique(us, email).favoriteIds

\* C13: with one request at a time, a successful DELETE /favorite of X
\* leaves the user's favoriteIds without any X and with every other id at
\* its multiplicity and in its order; when X was not there the call still
\* succeeds and the sequence stays as it was. No other user is touched.
C13_RemoveAllOccurrencesOnly ==
    [][\A i \in DOMAIN reqs :
          (/\ reqs[i].endpoint = "favorite" /\ reqs[i].method = "DELETE"
           /\ Leaves(i, "set") /\ reqs'[i].status = 200) =>
              LET email == reqs[i].currentUser.email
                  X == reqs[i].movieId
                  before == FavoritesOf(users, email)
                  after == FavoritesOf(users', email)
              IN  /\ Count(X, after) = 0
                  /\ \A id \in Range(before) \ {X} :
                        Count(id, after) = Count(id, before)
                  /\ after = SelectSeq(before, LAMBDA id : id # X)
                  /\ Count(X, before) = 0 => after = before
                  /\ reqs'[i].body = JsonUser(UserFindUnique(users', email))
                  /\ \A k \in DOMAIN users :
                        users[k].email # email => users'[k] = users[k]]_vars

\* A remove of m1, absent from [m2, m2], succeeded and left [m2, m2]; the
\* remove of m2 that followed left nothing.
C13_Witness ==
    \E i, j \in DOMAIN reqs :
        /\ i < j
        /\ IsFavoriteCall(i, "DELETE", EmailB, "m1") /\ Ok(i)
        /\ IsFavoriteCall(j, "DELETE", EmailB, "m2") /\ Ok(j)
        /\ reqs[i].currentUser.favoriteIds = <<"m2", "m2">>
        /\ reqs[i].body.user.favoriteIds = <<"m2", "m2">>
        /\ reqs[j].currentUser.favoriteIds = <<"m2", "m2">>
        /\ reqs[j].body.user.favoriteIds = <<>>

\* C14: a successful GET /favorites returns exactly the catalog movies whose
\* id is in the favoriteIds of the current user: each returned movie is a
\* catalog movie with a favorited id, each favorited catalog movie is
\* returned, none is returned twice, and no favorites give an empty list.
C14_FavoritesExactlyFavorited ==
    \A i \in DOMAIN reqs :
        (reqs[i].endpoint = "favorites" /\ Ok(i)) =>
            LET favoriteIds == reqs[i].currentUser.favoriteIds
                list == reqs[i].body.movies
            IN  /\ reqs[i].body.kind = "movies"
                /\ \A k \in DOMAIN list :
                      /\ list[k] \in Range(movies)
                      /\ list[k].id \in Range(favoriteIds)
                /\ \A m \in Range(movies) :
                      m.id \in Range(favoriteIds) => m \in Range(list)
                /\ \A k, l \in DOMAIN list : list[k] = list[l] => k = l
                /\ favoriteIds = <<>> => list = <<>>

\* A user whose favoriteIds hold m2 twice was listed m2 once.
C14_Witness ==
    \E i \in DOMAIN reqs :
        /\ IsFavoritesList(i, EmailB) /\ Ok(i)
        /\ reqs[i].currentUser.favoriteIds = <<"m2", "m2">>
        /\ reqs[i].body = JsonMovies(<<Movie("m2")>>)

\* The registration body lacks one of its three fields.
LacksField(i) ==
    \/ reqs[i].email = Undefined
    \/ reqs[i].name = Undefined
    \/ reqs[i].password = Undefined

C17_CredentialsNeedMatchingHash ==
    \A i \in DOMAIN reqs :
        (reqs[i].endpoint = "authorize" /\ Done(i)) =>
            /\ Ok(i) =>
                 /\ ~Falsy(reqs[i].email) /\ ~Falsy(reqs[i].password)
                 /\ \E k \in DOMAIN users :
                       /\ users[k].email = reqs[i].email
                       /\ users[k] = reqs[i].body.user
                       /\ ~Falsy(users[k].hashedPassword)
                       /\ users[k].hashedPassword
                             = BcryptHash(reqs[i].password)
            /\ (\E k \in DOMAIN users :
                    /\ users[k].email = reqs[i].email
                    /\ Falsy(users[k].hashedPassword)) =>
                 /\ reqs[i].status = 401
                 /\ reqs[i].body.kind = "error"

\* An account registered through the API signed in with its password, and
\* a sign-in for the account without a hashed password was refused after
\* the lookup.
C17_Witness ==
    \E i, j \in DOMAIN reqs :
        /\ reqs[i].endpoint = "authorize" /\ Ok(i)
        /\ reqs[i].email = EmailB /\ reqs[i].password = "pw"
        /\ reqs[j].endpoint = "authorize" /\ Done(j)
        /\ reqs[j].email = EmailO /\ reqs[j].password = "pw"
        /\ reqs[j].dbCalls = 1 /\ reqs[j].status = 401

\* us with the favoriteIds of the one user holding email replaced.
WithFavorites(us, email, favoriteIds) ==
    [k \in DOMAIN us |->
        IF us[k].email = email
        THEN [us[k] EXCEPT !.favoriteIds = favoriteIds]
        ELSE us[k]]

\* C19: no step of a request changes the movies or removes a user; a step
\* that changes the users belongs to a POST /register and appends one user
\* with the registered email, or belongs to a POST or DELETE /favorite and
\* changes nothing but the favoriteIds of the user the request's session
\* names. No step of a GET request changes stored state.
C19_OnlyUserWrites ==
    [][reqs' # reqs =>
          /\ movies' = movies
          /\ \A k \in DOMAIN users :
                k \in DOMAIN users' /\ users'[k].email = users[k].email
          /\ users' # users =>
                \E i \in DOMAIN reqs :
                    /\ reqs'[i] # reqs[i]
                    /\ \/ /\ reqs[i].endpoint = "register"
                          /\ reqs[i].method = "POST"
                          /\ Len(users') = Len(users) + 1
                          /\ SubSeq(users', 1, Len(users)) = users
                          /\ users'[Len(users')].email = reqs[i].email
                       \/ /\ reqs[i].endpoint = "favorite"
                          /\ reqs[i].method \in {"POST", "DELETE"}
                          /\ users' = WithFavorites(
                                 users, SessionEmail(reqs[i].session),
                                 FavoritesOf(users',
                                             SessionEmail(reqs[i].session)))]_vars

\* A registration has added b@x and a favorite request has changed the
\* favoriteIds of a@x, over the catalog as it was.
C19_Witness ==
    /\ \E i, j \in DOMAIN reqs :
          /\ reqs[i].endpoint = "register" /\ reqs[i].email = EmailB /\ Ok(i)
          /\ reqs[j].endpoint = "favorite" /\ Ok(j)
          /\ reqs[j].session = SessionOf(EmailA)
    /\ HasUser(users, EmailB)
    /\ FavoritesOf(users, EmailA) # <<"m1">>
    /\ movies = Catalog

\* The step in which request i gets the answer 200 to its write.
Writes(i, pc) == Leaves(i, pc) /\ reqs'[i].status = 200

\* C20: every mutation changes stored state in one step only, the step in
\* which its single user.create or user.update succeeds, and that step
\* changes one user: a registration appends its record, an add appends
\* movieId to the favoriteIds stored at that step, a remove overwrites the
\* stored favoriteIds with the array it read during session validation less
\* movieId. Every other step of a mutation leaves the users as they are.
C20_SingleWritePerMutation ==
    [][\A i \in DOMAIN reqs :
          (reqs[i].endpoint \in {"favorite", "register"}
              /\ reqs'[i] # reqs[i]) =>
              LET email == SessionEmail(reqs[i].session)
                  X == reqs[i].movieId
              IN  /\ Ok(i)' => \/ Writes(i, "create")
                               \/ Writes(i, "push")
                               \/ Writes(i, "set")
                  /\ Writes(i, "create") =>
                        users' = Append(users, reqs'[i].body.user)
                  /\ Writes(i, "push") =>
                        /\ Cardinality({k \in DOMAIN users :
                                           users[k].email = email}) = 1
                        /\ users' = WithFavorites(
                               users, email,
                               Append(FavoritesOf(users, email), X))
                  /\ Writes(i, "set") =>
                        /\ Cardinality({k \in DOMAIN users :
                                           users[k].email = email}) = 1
                        /\ users' = WithFavorites(
                               users, email,
                               SelectSeq(reqs[i].currentUser.favoriteIds,
                                         LAMBDA id : id # X))
                  /\ ~(Writes(i, "create") \/ Writes(i, "push")
                          \/ Writes(i, "set")) => users' = users]_vars

\* The statement as it was made: the write of each successful mutation has
\* the effect of the whole operation done at once on the stored record, so
\* a remove leaves the stored favoriteIds less movieId.
C20_MutationsAtomic ==
    [][\A i \in DOMAIN reqs :
          LET email == SessionEmail(reqs[i].session)
              X == reqs[i].movieId
          IN  /\ Writes(i, "create") =>
                    users' = Append(users, reqs'[i].body.user)
              /\ Writes(i, "push") =>
                    users' = WithFavorites(
                        users, email, Append(FavoritesOf(users, email), X))
              /\ Writes(i, "set") =>
                    users' = WithFavorites(
                        users, email,
                        SelectSeq(FavoritesOf(users, email),
                                  LAMBDA id : id # X))]_vars

\* A remove of m1 answered 200 after an add of m2 by the same user had been
\* stored in between its read and its write.
C20_Witness ==
    \E i, j \in DOMAIN reqs :
        /\ IsFavoriteCall(i, "DELETE", EmailA, "m1") /\ Ok(i)
        /\ IsFavoriteCall(j, "POST", EmailA, "m2") /\ Ok(j)
        /\ reqs[i].currentUser.favoriteIds = <<"m1">>
        /\ reqs[j].body.user.favoriteIds = <<"m1", "m2">>
        /\ reqs[i].body.user.favoriteIds = <<>>

\* C21: every request for the profiles, browse or watch page made without
\* a session is answered with a redirect to the auth page, never with the
\* page.
C21_PagesGated ==
    \A k \in DOMAIN pages :
        (pages[k].page \in {"profiles", "browse", "watch"}
            /\ pages[k].session = NoSession) =>
            pages[k].response = Redirect("/auth")

\* The calls of the browser that are hook fetches of a near-static resource:
\* the movie list, the favorites list, the billboard or a single movie.
NearStatic(i) == calls[i].kind = "fetch" /\ calls[i].key # CurrentKey

\* C22: the single-movie hook sends a request only for a truthy movie id,
\* to /api/movies/{id} with that id; with an undefined or empty id it sends
\* nothing.
C22_NoMovieRequestWithoutId ==
    \A i \in DOMAIN calls :
        reqs[i].endpoint = "movie" =>
            /\ ~Falsy(reqs[i].movieId)
            /\ calls[i].key = MovieKey(reqs[i].movieId)

\* The info modal was opened on m1, which fetched that movie, and closed
\* again, which rendered the hook with an undefined id and fetched nothing.
C22_Witness ==
    /\ Len(calls) = 1
    /\ calls[1].key = MovieKey("m1")
    /\ calls[1].delivered
    /\ cache[MovieKey("m1")].data = JsonMovie(Movie("m1"))
    /\ modal = Undefined

PendingToggles == {i \in Pending : calls[i].kind = "toggle"}

\* The favoriteIds of the cached current user, which the button icons show.
CachedFavoriteIds == FavoriteIdsOf(cache[CurrentKey].data)

\* C24: the toggle is optimistic: while a click's request has not been
\* answered, the cached current user's favoriteIds already show the change
\* the click asks for (the id added by a POST, removed by a DELETE).
C24_OptimisticToggle ==
    \A i \in PendingToggles :
        IF reqs[i].method = "POST"
        THEN reqs[i].movieId \in Range(CachedFavoriteIds)
        ELSE reqs[i].movieId \notin Range(CachedFavoriteIds)

FavoriteRequests(method, email) ==
    {i \in DOMAIN reqs :
        /\ reqs[i].endpoint = "favorite"
        /\ reqs[i].method = method
        /\ reqs[i].session = SessionOf(email)}

\* C26: adds never lose each other: for a user who started without
\* favorites and for whom no DELETE /favorite was issued, every POST /favorite
\* that returned 200 has its movie id in the stored favoriteIds, each with an
\* entry of its own, however the requests were interleaved.
C26_AddsNeverLost ==
    \A email \in {EmailA, EmailB} :
        FavoriteRequests("DELETE", email) = {} =>
            \A id \in {"m1", "m2"} :
                Cardinality({k \in DOMAIN FavoritesOf(users, email) :
                                FavoritesOf(users, email)[k] = id})
                    = Cardinality({i \in FavoriteRequests("POST", email) :
                                      Ok(i) /\ reqs[i].movieId = id})

\* Two adds of a@x ran at the same time: the one that arrived second was
\* stored first, both returned 200 and both ids are stored.
C26_Witness ==
    /\ Len(reqs) = 2
    /\ FavoriteRequests("POST", EmailA) = {1, 2}
    /\ reqs[1].movieId = "m1" /\ reqs[2].movieId = "m2"
    /\ Ok(1) /\ Ok(2)
    /\ FavoritesOf(users, EmailA) = <<"m2", "m1">>

\* C27: favorites are isolated per user: a step of a POST or DELETE
\* /favorite made with a user's session changes at most the favoriteIds of
\* that user's record, leaving every other record and every other field of
\* that record as they were, and a GET /favorites answers with the catalog
\* movies named by the favoriteIds of the user its session names, whatever
\* the other records hold.
C27_FavoritesIsolated ==
    [][\A i \in DOMAIN reqs :
          reqs'[i] # reqs[i] =>
              LET email == SessionEmail(reqs[i].session)
              IN  /\ reqs[i].endpoint = "favorite" =>
                        /\ Len(users') = Len(users)
                        /\ \A k \in DOMAIN users :
                              IF users[k].email = email
                              THEN users'[k] =
                                       [users[k] EXCEPT !.favoriteIds =
                                           users'[k].favoriteIds]
                              ELSE users'[k] = users[k]
                  /\ (reqs[i].endpoint = "favorites" /\ Ok(i)') =>
                        /\ users' = users
                        /\ reqs'[i].body =
                              JsonMovies(SelectSeq(movies, LAMBDA m :
                                  m.id \in Range(reqs'[i].currentUser
                                                     .favoriteIds)))
                        /\ reqs'[i].currentUser.email = email]_vars

\* a@x has added m2 and b@x has added m1; each record holds its own id only,
\* and GET /favorites of a@x has answered with m2 alone.
C27_Witness ==
    /\ FavoritesOf(users, EmailA) = <<"m2">>
    /\ FavoritesOf(users, EmailB) = <<"m1">>
    /\ \E i \in DOMAIN reqs :
          /\ reqs[i].endpoint = "favorites"
          /\ reqs[i].session = SessionOf(EmailA)
          /\ Ok(i)
          /\ reqs[i].body = JsonMovies(<<Movie("m2")>>)

\* C28: referential integrity of favorites: with users that start without
\* favorites, every identifier in every user's favoriteIds is the id of a
\* movie of the catalog, and the catalog is the one the behaviour started
\* with, whatever the interleaving of the requests.
C28_FavoritesReferToMovies ==
    /\ movies = Catalog
    /\ \A k \in DOMAIN users :
          \A id \in Range(users[k].favoriteIds) :
              \E m \in DOMAIN movies : movies[m].id = id

\* a@x holds a favorite, and an add of an id that names no movie was
\* refused and left nothing behind.
C28_Witness ==
    /\ FavoritesOf(users, EmailA) = <<"m1">>
    /\ \E i \in FavoriteRequests("POST", EmailA) :
          /\ reqs[i].movieId = UnknownId
          /\ Done(i)
          /\ reqs[i].status = 400

\* The step delivers the response of toggle i to the browser.
Answers(i) ==
    /\ calls[i].kind = "toggle"
    /\ ~calls[i].delivered
    /\ calls'[i].delivered

\* C29: a click sends DELETE exactly when the cached current user's
\* favoriteIds contains the button's movie and POST otherwise; a 2xx answer
\* sets the cached current user's favoriteIds to those the server returned
\* and starts a revalidation of the favorites list (and of the current
\* user); any other answer changes neither the cached current user nor the
\* cached favorites list and starts no request.
C29_ToggleEffect ==
    [][/\ \A i \in DOMAIN calls' \ DOMAIN calls :
             calls'[i].kind = "toggle" =>
                 /\ reqs'[i].endpoint = "favorite"
                 /\ reqs'[i].method =
                        IF reqs'[i].movieId \in Range(CachedFavoriteIds)
                        THEN "DELETE" ELSE "POST"
       /\ \A i \in DOMAIN calls :
             Answers(i) =>
                 IF reqs[i].status = 200
                 THEN /\ FavoriteIdsOf(cache'[CurrentKey].data)
                            = reqs[i].body.user.favoriteIds
                      /\ cache'[FavoritesKey].data = cache[FavoritesKey].data
                      /\ \E j \in DOMAIN calls' \ DOMAIN calls :
                            /\ calls'[j] = Call("fetch", FavoritesKey,
                                                "mutate", Null)
                            /\ cache'[FavoritesKey].latest = j
                            /\ reqs'[j].endpoint = "favorites"
                      /\ \E j \in DOMAIN calls' \ DOMAIN calls :
                            /\ calls'[j] = Call("fetch", CurrentKey,
                                                "mutate", Null)
                            /\ cache'[CurrentKey].latest = j
                            /\ reqs'[j].endpoint = "current"
                 ELSE /\ cache' = cache
                      /\ reqs' = reqs
                      /\ Len(calls') = Len(calls)]_vars

\* The browser has seen a DELETE of m1 answered 200, which left its cached
\* current user without favorites, and a POST from the info modal's button
\* without a movie id refused.
C29_Witness ==
    /\ \E i, j \in DOMAIN calls :
          /\ calls[i].kind = "toggle" /\ calls[i].delivered
          /\ reqs[i].method = "DELETE" /\ reqs[i].movieId = "m1"
          /\ reqs[i].status = 200
          /\ calls[j].kind = "toggle" /\ calls[j].delivered
          /\ reqs[j].method = "POST" /\ reqs[j].movieId = Undefined
          /\ reqs[j].status = 400
    /\ CachedFavoriteIds = <<>>

\* Every call of the browser has been answered and the answer delivered.
Quiescent == Pending = {} /\ InFlight = {}

\* C30: once every toggle of the user and every revalidation it triggered
\* has completed, the cached current user's favoriteIds are the favoriteIds
\* stored on the server and the cached favorites list is what GET /favorites
\* answers for them, in whatever order requests were handled and responses
\* arrived.
C30_Convergence ==
    Quiescent =>
        /\ CachedFavoriteIds = FavoritesOf(users, EmailA)
        /\ cache[FavoritesKey].data =
               JsonMovies(MovieFindManyIn(movies, FavoritesOf(users, EmailA)))

\* Two clicks on the button of m2 were sent before either was answered; the
\* second was written and answered first, and its revalidation read the
\* current user before the first click was written. Everything has
\* completed: the server holds m2 twice and the cache agrees with it.
C30_Witness ==
    /\ Quiescent
    /\ Len(calls) = 8
    /\ calls[3].kind = "toggle" /\ calls[4].kind = "toggle"
    /\ reqs[3].movieId = "m2" /\ reqs[4].movieId = "m2"
    /\ reqs[4].body.user.favoriteIds = <<"m1", "m2">>
    /\ reqs[3].body.user.favoriteIds = <<"m1", "m2", "m2">>
    /\ reqs[5].body.user.favoriteIds = <<"m1", "m2">>
    /\ FavoritesOf(users, EmailA) = <<"m1", "m2", "m2">>
    /\ CachedFavoriteIds = <<"m1", "m2", "m2">>

====
